---- MODULE Spec2Model ----
(***************************************************************************)
(* The cloud-variable synchronisation engine of AlternativeScratchCloud.   *)
(*                                                                         *)
(* The repository holds several generations of the same bookmarklet.       *)
(* Three of them are modelled, selected by the variable `variant`:         *)
(*   "main"  src/javascript_client.js            PendingSet, debounce,     *)
(*                                               no timestamps             *)
(*   "ts"    src/unnamed/part_000 lines 1-176    PendingSet, debounce,     *)
(*                                               timestamps, snapshot      *)
(*                                               bootstrap                 *)
(*   "np"    src/unnamed/part_000 lines 178-356  no PendingSet, no         *)
(*                                               debounce, timestamps      *)
(* (part_000 lines 358-523 repeat "np" without the projectID.)             *)
(*                                                                         *)
(* JavaScript runs the handlers on one thread: a handler runs to its next  *)
(* await, so every action below is one such run.  A response's processing  *)
(* and the continuation of whoever awaited it are one action.  Timers and  *)
(* intervals are untimed: any enabled one may fire next.                   *)
(*                                                                         *)
(* The HTTP server is not part of the sources; the Server* operators       *)
(* follow the interface the specification gives for the remote store.      *)
(***************************************************************************)
EXTENDS Integers, Sequences, FiniteSets, TLC

\* ------------------------------------------------------------- universe

Names == {"CloudA", "CloudB"}

\* Object.values(stage.variables) order
NameOrder == <<"CloudA", "CloudB">>

\* Values a Scratch variable can hold: strings, and the number 0 written "#0".
StrValues == {"0", "1"}
Values == StrValues \cup {"#0"}

\* the host has no such variable / a JavaScript undefined
NoVar == "NoVar"
Undefined == "undefined"

\* a lastValues entry without a timestamp field
NoTs == -1

\* writes to the remote store explored (its clock starts at 1)
MaxTs == 3
\* changes the host makes to its variables explored
MaxEdits == 2
\* concurrent writes per name explored where nothing limits them
MaxInFlight == 2
\* concurrent polls explored
MaxPolls == 1

Variants == {"main", "ts", "np"}

\* The variable the environment keeps changing (the project's scripts set it,
\* other clients write it); the other one is left as it started.
Busy == {"CloudA"}

VARIABLES
  variant,         \* which generation of the client runs
  host,            \* stage.variables: name -> value, or NoVar
  cloudVars,       \* the module-level cloudVars array, while initializeFromServer
                   \* of "main" and "np" may still read it ({} otherwise)
  lastValues,      \* name -> [value, timestamp]
  pendingUpdates,  \* the PendingSet
  isInitialized,
  updateQueue,     \* name -> buffered value (with its timer), or Undefined
  stopped,         \* both intervals cleared
  boot,            \* position of initializeFromServer
  inflight,        \* name -> sequence of write requests awaiting their response
  polls,           \* poll requests awaiting their response
  store,           \* remote store: name -> [value, ts]
  clock,           \* remote store's clock: one tick per write
  edits,           \* history: changes the host has made to its variables
  ev,              \* history: the write response the last step processed, if any
  bootLog,         \* history: what initializeFromServer met and sent, kept until
                   \* the step after its end
  sched,           \* history: the debounceUpdate calls of a name's current window
  detected         \* history: per name, the values monitor has detected since the
                   \* detection its last debounced write carried

vars == <<variant, host, cloudVars, lastValues, pendingUpdates, isInitialized,
          updateQueue, stopped, boot, inflight, polls, store, clock, edits,
          ev, bootLog, sched, detected>>

\* ------------------------------------------------------------- JavaScript

\* String(value)
String(v) == IF v = "#0" THEN "0" ELSE v

\* if (x) ...
Truthy(v) == v \notin {"#0", Undefined}

\* getCloudVariables(): the names the stage holds now
getCloudVariables == {n \in Names : host[n] # NoVar}

\* the names of `S` in Object.values order
RECURSIVE InOrderFrom(_, _)
InOrderFrom(S, i) ==
  IF i > Len(NameOrder) THEN <<>>
  ELSE IF NameOrder[i] \in S THEN <<NameOrder[i]>> \o InOrderFrom(S, i + 1)
       ELSE InOrderFrom(S, i + 1)
InOrder(S) == InOrderFrom(S, 1)

RemoveAt(s, i) == [j \in 1..(Len(s) - 1) |-> IF j < i THEN s[j] ELSE s[j + 1]]

\* vm.setVariableValue(stage.id, id, v): sets a variable the stage has
setVariableValue(h, n, v) == IF h[n] = NoVar THEN h ELSE [h EXCEPT ![n] = v]

NoLast == [value |-> Undefined, timestamp |-> NoTs]
NoEntry == [value |-> Undefined, ts |-> NoTs]
EmptyStore == [n \in Names |-> NoEntry]
NoQueue == [n \in Names |-> Undefined]

\* histories: nothing to tell
NoEvent == [op |-> "none", name |-> Undefined, kind |-> Undefined, value |-> Undefined,
            ts |-> NoTs, now |-> NoTs, before |-> NoLast,
            req |-> [value |-> Undefined, timestamp |-> NoTs, kind |-> "none"]]
NoLog == [live |-> FALSE, remote |-> EmptyStore, snap |-> EmptyStore, local |-> {},
          fetch |-> "none", sent |-> [n \in Names |-> <<>>]]
NoSched == [n \in Names |-> [calls |-> 0, last |-> Undefined]]
NoDetected == [n \in Names |-> [seen |-> <<>>, skipped |-> 0]]

\* the bootstrap's history is dropped by the first step after its end
AgeLog == IF boot.pc = "done" THEN NoLog ELSE bootLog
\* a step that processes no write response
Quiet == ev' = NoEvent /\ bootLog' = AgeLog
NoWrites == [n \in Names |-> <<>>]

BootDone == [pc |-> "done", cur |-> Undefined, rest |-> <<>>,
             vals |-> [n \in Names |-> Undefined], snap |-> EmptyStore]

UsesTs == variant \in {"ts", "np"}


\* ------------------------------------------------------------- remote store
\* (the server's code is not among the sources: modelled from the interface
\*  POST write -> {success, newValue, lastModified | serverValue,
\*  serverTimestamp, error} and GET snapshot -> {success, variables})

\* the timestamp the store gives its next write
ServerStamp == IF UsesTs THEN clock + 1 ELSE 0

\* the store may normalize the value it is sent: it keeps it as sent, or as a
\* string
ServerNormalize(v) == {v, String(v)}

\* The store takes a write unless it holds a newer value.  Only the "np"
\* client sends its timestamp; for the others the store decides alone.  The
\* store's clock counts the writes of the clients that read its timestamps;
\* javascript_client.js reads none, and its writes are stamped 0.
ServerAccepts(n, req) ==
  /\ UsesTs => clock < MaxTs
  /\ variant = "np" => (store[n] = NoEntry \/ req.timestamp >= store[n].ts)

ServerHoldsNewer(n, req) ==
  /\ store[n] # NoEntry
  /\ variant = "np" => store[n].ts > req.timestamp

\* What can become of one write request: the response ("failure": none, the
\* transport failed), and whether the store was written.
ServerWrite(n, req) ==
  {[kind |-> k, value |-> nv, ts |-> ServerStamp, wrote |-> TRUE] :
      k \in IF ServerAccepts(n, req) THEN {"success", "failure"} ELSE {},
      nv \in ServerNormalize(req.value)}
  \cup
  {[kind |-> "newer", value |-> store[n].value, ts |-> store[n].ts, wrote |-> FALSE] :
      k \in IF ServerHoldsNewer(n, req) THEN {1} ELSE {}}
  \cup
  {[kind |-> "rejected", value |-> Undefined, ts |-> NoTs, wrote |-> FALSE],
   [kind |-> "failure", value |-> Undefined, ts |-> NoTs, wrote |-> FALSE]}

ServerApply(n, o) ==
  /\ store' = IF o.wrote THEN [store EXCEPT ![n] = [value |-> o.value, ts |-> o.ts]]
              ELSE store
  /\ clock' = IF o.wrote /\ UsesTs THEN clock + 1 ELSE clock

\* another client writes the store
RemoteWrite(n, v) ==
  /\ clock < MaxTs
  /\ store[n] # [value |-> v, ts |-> ServerStamp]
  /\ store' = [store EXCEPT ![n] = [value |-> v, ts |-> ServerStamp]]
  /\ clock' = clock + 1
  /\ Quiet
  /\ UNCHANGED <<variant, detected, host, cloudVars, lastValues, pendingUpdates, isInitialized,
                 updateQueue, stopped, boot, inflight, polls, edits, sched>>

\* ------------------------------------------------------------- host
\* the Scratch project (or its user) sets, creates or deletes a cloud variable

HostSet(n, v) ==
  /\ edits < MaxEdits
  /\ host[n] # v
  /\ host' = [host EXCEPT ![n] = v]
  /\ edits' = edits + 1
  /\ Quiet
  /\ UNCHANGED <<variant, detected, cloudVars, lastValues, pendingUpdates, isInitialized,
                 updateQueue, stopped, boot, inflight, polls, store, clock, sched>>

\* ------------------------------------------------------------- start

\* The sessions explored: the busy variable is in the store or not, the other
\* one is not; a variable starts as the number 0 (Scratch's default) or as "1".
InitialStores ==
  {st \in [Names -> {NoEntry} \cup {[value |-> v, ts |-> 1] : v \in StrValues}] :
     \A n \in Names \ Busy : st[n] = NoEntry}

InitialHosts ==
  {h \in [Names -> {"#0", "1", NoVar}] : \A n \in Names \ Busy : h[n] # "#0"}

\* a write request
Request(v, t, k) == [value |-> v, timestamp |-> t, kind |-> k]

\* history of initializeFromServer: a write is sent, a write is answered
LogSent(log, n, v) ==
  [log EXCEPT !.sent[n] =
     Append(@, [value |-> v, local |-> host[n], result |-> "open", reply |-> Undefined])]
LogResult(log, n, o) ==
  [log EXCEPT !.sent[n][Len(log.sent[n])] =
     [@ EXCEPT !.result = IF o.kind = "failure" /\ o.wrote THEN "lost" ELSE o.kind,
               !.reply = IF o.kind = "failure" THEN Undefined ELSE o.value]]

\* The state when the script has run to its end: the first cloud variables are
\* read, initializeFromServer has run to its first await, the intervals are set.
Init ==
  /\ variant \in Variants
  /\ host \in InitialHosts
  /\ getCloudVariables # {}
  /\ cloudVars = IF variant = "ts" THEN {} ELSE getCloudVariables
  /\ lastValues = [n \in Names |->
       IF host[n] = NoVar THEN NoLast
       ELSE [value |-> host[n], timestamp |-> IF variant = "main" THEN NoTs ELSE 0]]
  /\ isInitialized = FALSE
  /\ updateQueue = NoQueue
  /\ stopped = FALSE
  /\ polls = <<>>
  /\ \E st \in InitialStores :
       store = [n \in Names |-> IF st[n] = NoEntry \/ UsesTs THEN st[n]
                                ELSE [st[n] EXCEPT !.ts = 0]]
  /\ clock = 1
  /\ edits = 0
  /\ ev = NoEvent
  /\ sched = NoSched
  /\ detected = NoDetected
  /\ LET first == Head(InOrder(getCloudVariables))
         log == [NoLog EXCEPT !.live = TRUE, !.remote = store]
     IN
     IF variant = "ts"
     THEN /\ boot = [BootDone EXCEPT !.pc = "fetch"]
          /\ pendingUpdates = {}
          /\ inflight = NoWrites
          /\ bootLog = [log EXCEPT !.fetch = "open"]
     ELSE /\ boot = [pc |-> "write", cur |-> first,
                     rest |-> Tail(InOrder(getCloudVariables)),
                     vals |-> [n \in Names |-> IF host[n] = NoVar THEN Undefined ELSE host[n]],
                     snap |-> EmptyStore]
          /\ pendingUpdates = IF variant = "main" THEN {first} ELSE {}
          /\ inflight = [NoWrites EXCEPT ![first] =
                 <<Request(host[first], lastValues[first].timestamp, "boot")>>]
          /\ bootLog = LogSent([log EXCEPT !.local = getCloudVariables], first, host[first])

\* ------------------------------------------------------------- main client
\* src/javascript_client.js

\* a debounceUpdate that leaves a running timer and its value alone
debounceUpdateKeepFirst(q, n, v) == IF q[n] # Undefined THEN q ELSE [q EXCEPT ![n] = v]

\* debounceUpdate(name, value): cancel the name's timer, buffer the value
\* under a fresh timer
debounceUpdate(q, n, v) == [q EXCEPT ![n] = v]

\* history of debounceUpdate: one more call (2: two or more) in the name's
\* window, which opens when the name has no entry
Called(sc, n, v) ==
  [sc EXCEPT ![n] = [calls |-> IF updateQueue[n] = Undefined THEN 1
                               ELSE IF sc[n].calls < 2 THEN sc[n].calls + 1 ELSE 2,
                     last |-> v]]

\* history of monitor: a value is detected for a name (a value detected again
\* while it is the last one recorded is recorded once)
Detected(d, v) ==
  [seen |-> IF d.seen # <<>> /\ d.seen[Len(d.seen)] = v THEN d.seen ELSE Append(d.seen, v),
   skipped |-> 0]

\* the first detection of a name that carried the value of a request, 0 if none
Matching(d, sent) ==
  IF \E i \in 1..Len(d.seen) : String(d.seen[i]) = sent
  THEN CHOOSE i \in 1..Len(d.seen) :
         /\ String(d.seen[i]) = sent
         /\ \A k \in 1..(i - 1) : String(d.seen[k]) # sent
  ELSE 0

\* history of sendToServer: the detections up to the one the request carries
\* are behind it
Carried(d, sent) ==
  LET i == Matching(d, sent) IN
  IF i = 0 THEN [seen |-> <<>>, skipped |-> 0]
  ELSE [seen |-> SubSeq(d.seen, i + 1, Len(d.seen)), skipped |-> i - 1]

\* a sendToServer that reads the variable when the timer fires instead of
\* taking the buffered value
sendToServerReadsHost(n, v) ==
  IF n \in pendingUpdates
  THEN UNCHANGED <<pendingUpdates, inflight>>
  ELSE /\ pendingUpdates' = pendingUpdates \cup {n}
       /\ inflight' = [inflight EXCEPT ![n] = Append(@, Request(String(host[n]), NoTs, "send"))]

\* a sendToServer that does not enter the name in pendingUpdates
sendToServerNoAcquire(n, v) ==
  IF n \in pendingUpdates
  THEN UNCHANGED <<pendingUpdates, inflight>>
  ELSE /\ UNCHANGED pendingUpdates
       /\ inflight' = [inflight EXCEPT ![n] = Append(@, Request(String(v), NoTs, "send"))]

\* sendToServer(name, value) up to its await
sendToServer(n, v) ==
  IF n \in pendingUpdates
  THEN UNCHANGED <<pendingUpdates, inflight>>
  ELSE /\ pendingUpdates' = pendingUpdates \cup {n}
       /\ inflight' = [inflight EXCEPT ![n] = Append(@, Request(String(v), NoTs, "send"))]

\* the timer set by debounceUpdate fires
debounceTimer(n) ==
  /\ variant \in {"main", "ts"}
  /\ updateQueue[n] # Undefined
  /\ IF n \notin pendingUpdates
     THEN /\ sendToServer(n, updateQueue[n]) /\ UNCHANGED sched
          /\ detected' = [detected EXCEPT ![n] = Carried(@, inflight'[n][Len(inflight'[n])].value)]
     ELSE /\ UNCHANGED <<pendingUpdates, inflight, detected>>
          /\ sched' = [sched EXCEPT ![n] = NoSched[n]]
  /\ updateQueue' = [updateQueue EXCEPT ![n] = Undefined]
  /\ Quiet
  /\ UNCHANGED <<variant, host, cloudVars, lastValues, isInitialized, stopped, boot, polls,
                 store, clock, edits>>

\* a response handling that keeps the optimistic entry on success
sendAdoptLastKeepsLocal(n, o) ==
  CASE o.kind \in {"newer", "rejected"} /\ host[n] # NoVar /\ Truthy(o.value) ->
         [value |-> o.value, timestamp |-> NoTs]
    [] OTHER -> lastValues[n]

\* what the response's branch of sendToServer leaves in lastValues[name]
sendAdoptLast(n, o) ==
  CASE o.kind = "success" -> [value |-> o.value, timestamp |-> NoTs]
    [] o.kind \in {"newer", "rejected"} /\ host[n] # NoVar /\ Truthy(o.value) ->
         [value |-> o.value, timestamp |-> NoTs]
    [] OTHER -> lastValues[n]

\* ... and in the host
sendAdoptHost(n, o) ==
  IF o.kind \in {"newer", "rejected"} /\ host[n] # NoVar /\ Truthy(o.value)
  THEN setVariableValue(host, n, o.value)
  ELSE host

\* a sendToServer without its finally
sendReleaseNever(n) == pendingUpdates

\* sendToServer's finally
sendRelease(n) == pendingUpdates \ {n}

\* history: the response a step has processed
Event(op, n, req, o, now) ==
  [op |-> op, name |-> n, kind |-> o.kind, value |-> o.value, ts |-> o.ts, now |-> now,
   before |-> lastValues[n], req |-> req]

\* sendToServer from its await to its end: the response to request i of name n
sendToServerDone(n, i, o) ==
  /\ variant = "main"
  /\ i \in 1..Len(inflight[n])
  /\ inflight[n][i].kind = "send"
  /\ o \in ServerWrite(n, inflight[n][i])
  /\ ServerApply(n, o)
  /\ inflight' = [inflight EXCEPT ![n] = RemoveAt(@, i)]
  /\ lastValues' = [lastValues EXCEPT ![n] = sendAdoptLast(n, o)]
  /\ host' = sendAdoptHost(n, o)
  /\ pendingUpdates' = sendRelease(n)
  /\ sched' = [sched EXCEPT ![n] = NoSched[n]]
  /\ ev' = Event("send", n, inflight[n][i], o, NoTs)
  /\ bootLog' = AgeLog
  /\ UNCHANGED <<variant, detected, cloudVars, isInitialized, updateQueue, stopped, boot, polls,
                 edits>>

\* what initializeFromServer's response branch leaves in lastValues[name]
initAdoptLast(n, o) ==
  CASE o.kind = "success" -> [value |-> o.value, timestamp |-> NoTs]
    [] o.kind \in {"newer", "rejected"} /\ n \in cloudVars /\ Truthy(o.value) ->
         [value |-> o.value, timestamp |-> NoTs]
    [] OTHER -> lastValues[n]

initAdoptHost(n, o) ==
  IF o.kind \in {"newer", "rejected"} /\ n \in cloudVars /\ Truthy(o.value)
  THEN setVariableValue(host, n, o.value)
  ELSE host

\* initializeFromServer from one await to the next (or to its end): the
\* response to the write of boot.cur, then the next variable's write
initializeFromServerStep(o) ==
  /\ variant = "main"
  /\ boot.pc = "write"
  /\ LET n == boot.cur IN
     /\ o \in ServerWrite(n, inflight[n][1])
     /\ ServerApply(n, o)
     /\ ev' = Event("init", n, inflight[n][1], o, NoTs)
     /\ IF o.kind = "failure"
        THEN \* catch: pendingUpdates.clear()
             /\ pendingUpdates' = {}
             /\ inflight' = [inflight EXCEPT ![n] = Tail(@)]
             /\ isInitialized' = TRUE
             /\ boot' = BootDone
             /\ bootLog' = LogResult(bootLog, n, o)
             /\ UNCHANGED <<lastValues, host>>
        ELSE /\ lastValues' = [lastValues EXCEPT ![n] = initAdoptLast(n, o)]
             /\ host' = initAdoptHost(n, o)
             /\ IF boot.rest = <<>>
                THEN /\ pendingUpdates' = pendingUpdates \ {n}
                     /\ inflight' = [inflight EXCEPT ![n] = Tail(@)]
                     /\ isInitialized' = TRUE
                     /\ boot' = BootDone
                     /\ bootLog' = LogResult(bootLog, n, o)
                ELSE LET m == Head(boot.rest) IN
                     /\ pendingUpdates' = (pendingUpdates \ {n}) \cup {m}
                     /\ inflight' = [inflight EXCEPT ![n] = Tail(@),
                                       ![m] = Append(@, Request(boot.vals[m], NoTs, "boot"))]
                     /\ bootLog' = LogSent(LogResult(bootLog, n, o), m, boot.vals[m])
                     /\ boot' = [boot EXCEPT !.cur = m, !.rest = Tail(@)]
                     /\ UNCHANGED isInitialized
  /\ cloudVars' = IF boot'.pc = "done" THEN {} ELSE cloudVars
  /\ UNCHANGED <<variant, detected, updateQueue, stopped, polls, edits, sched>>

\* a change detection that compares the values as strings
monitorChangedLoose(n) ==
  /\ host[n] # NoVar /\ n \notin pendingUpdates /\ lastValues[n] # NoLast
  /\ isInitialized /\ String(host[n]) # String(lastValues[n].value)

\* a detection that schedules a new variable's send before initialization
monitorSchedulesUngated(n) ==
  /\ host[n] # NoVar /\ n \notin pendingUpdates
  /\ lastValues[n] = NoLast \/ (isInitialized /\ host[n] # lastValues[n].value)

\* a monitor that does not skip the names in pendingUpdates
monitorSeesPending(n) == host[n] # NoVar

\* monitor's decisions for one variable
monitorSees(n) == host[n] # NoVar /\ n \notin pendingUpdates
monitorNew(n) == monitorSees(n) /\ lastValues[n] = NoLast
monitorChanged(n) ==
  /\ monitorSees(n) /\ lastValues[n] # NoLast
  /\ isInitialized /\ host[n] # lastValues[n].value
monitorSchedules(n) == (monitorNew(n) /\ isInitialized) \/ monitorChanged(n)

\* monitor(), one interval tick
monitor ==
  /\ variant = "main"
  /\ ~stopped
  /\ cloudVars' = IF boot.pc = "done" THEN {} ELSE getCloudVariables
  /\ lastValues' = [n \in Names |->
       IF monitorNew(n) \/ monitorChanged(n)
       THEN [value |-> host[n], timestamp |-> NoTs] ELSE lastValues[n]]
  /\ updateQueue' = [n \in Names |->
       IF monitorSchedules(n) THEN debounceUpdate(updateQueue, n, host[n])[n]
       ELSE updateQueue[n]]
  /\ sched' = [n \in Names |->
       IF monitorSchedules(n) THEN Called(sched, n, host[n])[n] ELSE sched[n]]
  /\ detected' = [n \in Names |->
       IF monitorSchedules(n) THEN Detected(detected[n], host[n]) ELSE detected[n]]
  /\ Quiet
  /\ UNCHANGED <<variant, host, pendingUpdates, isInitialized, stopped, boot, inflight,
                 polls, store, clock, edits>>

\* a poll request: not yet answered, or the answer on its way back
PollSent == [st |-> "sent", variables |-> EmptyStore]

\* pollServerForUpdates() up to its await, one interval tick
pollServerForUpdates ==
  /\ ~stopped
  /\ IF ~isInitialized
     THEN UNCHANGED polls
     ELSE /\ Len(polls) < MaxPolls
          /\ polls' = Append(polls, PollSent)
  /\ Quiet
  /\ UNCHANGED <<variant, detected, host, cloudVars, lastValues, pendingUpdates, isInitialized,
                 updateQueue, stopped, boot, inflight, store, clock, edits, sched>>

\* the store answers poll i: the snapshot, or success = false
ServerSnapshot(i, ok) ==
  /\ i \in 1..Len(polls)
  /\ polls[i].st = "sent"
  /\ polls' = [polls EXCEPT ![i] =
       IF ok THEN [st |-> "ok", variables |-> store]
       ELSE [st |-> "refused", variables |-> EmptyStore]]
  /\ Quiet
  /\ UNCHANGED <<variant, detected, host, cloudVars, lastValues, pendingUpdates, isInitialized,
                 updateQueue, stopped, boot, inflight, store, clock, edits, sched>>

\* whether the merge of a snapshot entry adopts it
pollAdopts(n, e) ==
  /\ e # NoEntry
  /\ n \notin pendingUpdates
  /\ host[n] # NoVar
  /\ host[n] # e.value

\* a merge that reads data.variables without testing data.success
SnapshotUntested(i, failed) == polls[i].variables

\* history of pollServerForUpdates: the response a step has processed
PollEvent(i, failed) ==
  [NoEvent EXCEPT !.op = "poll",
                  !.kind = IF failed \/ polls[i].st # "ok" THEN "failure" ELSE "merged"]

\* the snapshot response i carries (failed: the transport failed)
Snapshot(i, failed) ==
  IF failed \/ polls[i].st # "ok" THEN EmptyStore ELSE polls[i].variables

\* pollServerForUpdates from its await to its end: response i arrives
pollServerForUpdatesDone(i, failed) ==
  /\ variant = "main"
  /\ i \in 1..Len(polls)
  /\ failed \/ polls[i].st # "sent"
  /\ polls' = RemoveAt(polls, i)
  /\ LET snap == Snapshot(i, failed) IN
     /\ host' = [n \in Names |-> IF pollAdopts(n, snap[n]) THEN snap[n].value ELSE host[n]]
     /\ lastValues' = [n \in Names |->
          IF pollAdopts(n, snap[n]) THEN [value |-> snap[n].value, timestamp |-> NoTs]
          ELSE lastValues[n]]
  /\ ev' = PollEvent(i, failed)
  /\ bootLog' = AgeLog
  /\ UNCHANGED <<variant, detected, cloudVars, pendingUpdates, isInitialized, updateQueue, stopped,
                 boot, inflight, store, clock, edits, sched>>

\* a cloudVarsStop that also takes the session back to uninitialized
cloudVarsStopResets ==
  /\ variant \in {"main", "ts"}
  /\ stopped' = TRUE
  /\ isInitialized' = FALSE
  /\ updateQueue' = NoQueue
  /\ pendingUpdates' = {}
  /\ sched' = NoSched
  /\ detected' = NoDetected
  /\ Quiet
  /\ UNCHANGED <<variant, host, cloudVars, lastValues, boot, inflight, polls, store, clock,
                 edits>>

\* a cloudVarsStop that cancels the intervals only
cloudVarsStopKeepsQueue ==
  /\ variant \in {"main", "ts"}
  /\ stopped' = TRUE
  /\ Quiet
  /\ UNCHANGED <<variant, detected, host, cloudVars, lastValues, pendingUpdates, isInitialized,
                 updateQueue, boot, inflight, polls, store, clock, edits, sched>>

\* window.cloudVarsStop()
cloudVarsStop ==
  /\ variant \in {"main", "ts"}
  /\ stopped' = TRUE
  /\ updateQueue' = NoQueue
  /\ pendingUpdates' = {}
  /\ sched' = NoSched
  /\ detected' = NoDetected
  /\ Quiet
  /\ UNCHANGED <<variant, host, cloudVars, lastValues, isInitialized, boot, inflight,
                 polls, store, clock, edits>>

\* ------------------------------------------------------------- timestamp client
\* src/unnamed/part_000 lines 1-176

\* Date.now(), the client's clock
DateNow == 1..MaxTs

\* initializeFromServer's loop from variable Head(rest) on, run until it awaits
\* a write, ends or throws: what it has done to the host and to lastValues
RECURSIVE initLoopTs(_, _, _, _, _)
initLoopTs(rest, snap, h, lv, pend) ==
  IF rest = <<>> THEN [act |-> "end", host |-> h, last |-> lv, rest |-> rest]
  ELSE LET n == Head(rest) IN
    IF snap[n] # NoEntry
    THEN initLoopTs(Tail(rest), snap, setVariableValue(h, n, snap[n].value),
                    [lv EXCEPT ![n] = [value |-> snap[n].value, timestamp |-> snap[n].ts]],
                    pend)
    ELSE IF h[n] = NoVar
    THEN [act |-> "throw", host |-> h, last |-> lv, rest |-> rest]
    ELSE IF n \in pend
    THEN initLoopTs(Tail(rest), snap, h, lv, pend)
    ELSE [act |-> "send", host |-> h, last |-> lv, rest |-> rest]

\* the state initializeFromServer leaves when its loop has run to `r`
initResumeTs(r, snap, pend, infl, log) ==
  /\ host' = r.host
  /\ lastValues' = r.last
  /\ IF r.act = "send"
     THEN LET m == Head(r.rest) IN
          /\ pendingUpdates' = pend \cup {m}
          /\ inflight' = [infl EXCEPT ![m] = Append(@, Request(String(r.host[m]), NoTs, "boot"))]
          /\ bootLog' = [log EXCEPT !.sent[m] =
               Append(@, [value |-> String(r.host[m]), local |-> r.host[m],
                          result |-> "open", reply |-> Undefined])]
          /\ boot' = [pc |-> "write", cur |-> m, rest |-> Tail(r.rest),
                      vals |-> BootDone.vals, snap |-> snap]
          /\ UNCHANGED isInitialized
     ELSE /\ pendingUpdates' = pend
          /\ inflight' = infl
          /\ isInitialized' = TRUE
          /\ boot' = BootDone
          /\ bootLog' = log

\* the store answers initializeFromServer's fetch
ServerBootSnapshot(ok) ==
  /\ boot.pc = "fetch"
  /\ boot' = IF ok THEN [boot EXCEPT !.pc = "fetched", !.snap = store]
             ELSE [boot EXCEPT !.pc = "refused"]
  /\ ev' = NoEvent
  /\ UNCHANGED bootLog
  /\ UNCHANGED <<variant, detected, host, cloudVars, lastValues, pendingUpdates, isInitialized,
                 updateQueue, stopped, inflight, polls, store, clock, edits, sched>>

\* initializeFromServer from its fetch to its first write, or to its end
initializeFromServerTs(failed) ==
  /\ variant = "ts"
  /\ boot.pc \in {"fetch", "fetched", "refused"}
  /\ failed \/ boot.pc # "fetch"
  /\ ev' = NoEvent
  /\ IF failed \/ boot.pc = "refused"
     THEN /\ isInitialized' = TRUE
          /\ boot' = BootDone
          /\ bootLog' = [bootLog EXCEPT !.fetch = "failed", !.local = getCloudVariables]
          /\ UNCHANGED <<host, lastValues, pendingUpdates, inflight>>
     ELSE initResumeTs(initLoopTs(InOrder(getCloudVariables), boot.snap, host, lastValues,
                                  pendingUpdates),
                       boot.snap, pendingUpdates, inflight,
                       [bootLog EXCEPT !.fetch = "ok", !.snap = boot.snap,
                                       !.local = getCloudVariables])
  /\ UNCHANGED <<variant, detected, cloudVars, updateQueue, stopped, polls, store, clock, edits,
                 sched>>

\* whether sendToServer's rejection branch adopts the server's value
sendAdoptsTs(n, o) ==
  o.kind \in {"newer", "rejected"} /\ Truthy(o.value) /\ host[n] # NoVar

sendAdoptLastTs(n, o, now) ==
  CASE o.kind = "success" -> [value |-> o.value, timestamp |-> o.ts]
    [] sendAdoptsTs(n, o) -> [value |-> o.value, timestamp |-> now]
    [] OTHER -> lastValues[n]

sendAdoptHostTs(n, o) ==
  IF sendAdoptsTs(n, o) THEN setVariableValue(host, n, o.value) ELSE host

\* sendToServer from its await to its end, and, when initializeFromServer
\* awaited it, initializeFromServer from there to its next await
sendToServerDoneTs(n, i, o, now) ==
  /\ variant = "ts"
  /\ i \in 1..Len(inflight[n])
  /\ o \in ServerWrite(n, inflight[n][i])
  /\ now \in DateNow
  /\ ServerApply(n, o)
  /\ sched' = [sched EXCEPT ![n] = NoSched[n]]
  /\ ev' = Event("send", n, inflight[n][i], o, IF sendAdoptsTs(n, o) THEN now ELSE NoTs)
  /\ LET lv == [lastValues EXCEPT ![n] = sendAdoptLastTs(n, o, now)]
         h == sendAdoptHostTs(n, o)
         pend == sendRelease(n)
         infl == [inflight EXCEPT ![n] = RemoveAt(@, i)]
     IN IF inflight[n][i].kind = "boot"
        THEN initResumeTs(initLoopTs(boot.rest, boot.snap, h, lv, pend),
                          boot.snap, pend, infl, LogResult(bootLog, n, o))
        ELSE /\ host' = h
             /\ lastValues' = lv
             /\ pendingUpdates' = pend
             /\ inflight' = infl
             /\ bootLog' = AgeLog
             /\ UNCHANGED <<isInitialized, boot>>
  /\ UNCHANGED <<variant, detected, cloudVars, updateQueue, stopped, polls, edits>>

\* monitor(), one interval tick
monitorTs ==
  /\ variant = "ts"
  /\ ~stopped
  /\ lastValues' = [n \in Names |->
       IF monitorNew(n) THEN [value |-> host[n], timestamp |-> 0] ELSE lastValues[n]]
  /\ updateQueue' = [n \in Names |->
       IF monitorSchedules(n) THEN debounceUpdate(updateQueue, n, host[n])[n]
       ELSE updateQueue[n]]
  /\ sched' = [n \in Names |->
       IF monitorSchedules(n) THEN Called(sched, n, host[n])[n] ELSE sched[n]]
  /\ detected' = [n \in Names |->
       IF monitorSchedules(n) THEN Detected(detected[n], host[n]) ELSE detected[n]]
  /\ Quiet
  /\ UNCHANGED <<variant, host, cloudVars, pendingUpdates, isInitialized, stopped, boot,
                 inflight, polls, store, clock, edits>>

\* whether the merge of a snapshot entry adopts it
pollAdoptsTs(n, e) ==
  /\ e # NoEntry
  /\ lastValues[n] = NoLast \/ e.ts >= lastValues[n].timestamp
  /\ host[n] # NoVar

\* pollServerForUpdates from its await to its end: response i arrives
pollServerForUpdatesDoneTs(i, failed) ==
  /\ variant = "ts"
  /\ i \in 1..Len(polls)
  /\ failed \/ polls[i].st # "sent"
  /\ polls' = RemoveAt(polls, i)
  /\ LET snap == Snapshot(i, failed) IN
     /\ host' = [n \in Names |-> IF pollAdoptsTs(n, snap[n]) THEN snap[n].value ELSE host[n]]
     /\ lastValues' = [n \in Names |->
          IF pollAdoptsTs(n, snap[n]) THEN [value |-> snap[n].value, timestamp |-> snap[n].ts]
          ELSE lastValues[n]]
  /\ ev' = PollEvent(i, failed)
  /\ bootLog' = AgeLog
  /\ UNCHANGED <<variant, detected, cloudVars, pendingUpdates, isInitialized, updateQueue, stopped,
                 boot, inflight, store, clock, edits, sched>>

\* ------------------------------------------------------------- client without PendingSet
\* src/unnamed/part_000 lines 178-356

sendAdoptLastNp(n, o, found) ==
  CASE o.kind = "success" -> [value |-> o.value, timestamp |-> o.ts]
    [] o.kind = "newer" /\ found -> [value |-> o.value, timestamp |-> o.ts]
    [] OTHER -> lastValues[n]

sendAdoptHostNp(n, o, found) ==
  IF o.kind = "newer" /\ found THEN setVariableValue(host, n, o.value) ELSE host

\* sendToServer from its await to its end
sendToServerDoneNp(n, i, o) ==
  /\ variant = "np"
  /\ i \in 1..Len(inflight[n])
  /\ inflight[n][i].kind = "send"
  /\ o \in ServerWrite(n, inflight[n][i])
  /\ ServerApply(n, o)
  /\ inflight' = [inflight EXCEPT ![n] = RemoveAt(@, i)]
  /\ lastValues' = [lastValues EXCEPT ![n] = sendAdoptLastNp(n, o, host[n] # NoVar)]
  /\ host' = sendAdoptHostNp(n, o, host[n] # NoVar)
  /\ ev' = Event("send", n, inflight[n][i], o, NoTs)
  /\ bootLog' = AgeLog
  /\ UNCHANGED <<variant, detected, cloudVars, pendingUpdates, isInitialized, updateQueue, stopped,
                 boot, polls, edits, sched>>

\* initializeFromServer from one await to the next, or to its end
initializeFromServerStepNp(i, o) ==
  /\ variant = "np"
  /\ boot.pc = "write"
  /\ LET n == boot.cur IN
     /\ i \in 1..Len(inflight[n])
     /\ inflight[n][i].kind = "boot"
     /\ o \in ServerWrite(n, inflight[n][i])
     /\ ServerApply(n, o)
     /\ ev' = Event("init", n, inflight[n][i], o, NoTs)
     /\ IF o.kind = "failure"
        THEN /\ inflight' = [inflight EXCEPT ![n] = RemoveAt(@, i)]
             /\ isInitialized' = TRUE
             /\ boot' = BootDone
             /\ bootLog' = LogResult(bootLog, n, o)
             /\ UNCHANGED <<lastValues, host>>
        ELSE LET lv == [lastValues EXCEPT ![n] = sendAdoptLastNp(n, o, n \in cloudVars)] IN
             /\ lastValues' = lv
             /\ host' = sendAdoptHostNp(n, o, n \in cloudVars)
             /\ IF boot.rest = <<>>
                THEN /\ inflight' = [inflight EXCEPT ![n] = RemoveAt(@, i)]
                     /\ isInitialized' = TRUE
                     /\ boot' = BootDone
                     /\ bootLog' = LogResult(bootLog, n, o)
                ELSE LET m == Head(boot.rest) IN
                     /\ inflight' = [[inflight EXCEPT ![n] = RemoveAt(@, i)] EXCEPT ![m] =
                            Append(@, Request(boot.vals[m], lv[m].timestamp, "boot"))]
                     /\ bootLog' = LogSent(LogResult(bootLog, n, o), m, boot.vals[m])
                     /\ boot' = [boot EXCEPT !.cur = m, !.rest = Tail(@)]
                     /\ UNCHANGED isInitialized
  /\ cloudVars' = IF boot'.pc = "done" THEN {} ELSE cloudVars
  /\ UNCHANGED <<variant, detected, pendingUpdates, updateQueue, stopped, polls, edits, sched>>

\* monitor's decisions for one variable
monitorNewNp(n) == host[n] # NoVar /\ lastValues[n] = NoLast
monitorChangedNp(n) ==
  /\ host[n] # NoVar /\ lastValues[n] # NoLast
  /\ isInitialized /\ host[n] # lastValues[n].value
monitorSendsNp(n) == (monitorNewNp(n) /\ isInitialized) \/ monitorChangedNp(n)

\* monitor(), one interval tick: it calls sendToServer itself
monitorNp ==
  /\ variant = "np"
  /\ ~stopped
  /\ \A n \in Names : monitorSendsNp(n) => Len(inflight[n]) < MaxInFlight
  /\ cloudVars' = IF boot.pc = "done" THEN {} ELSE getCloudVariables
  /\ inflight' = [n \in Names |->
       IF monitorSendsNp(n)
       THEN Append(inflight[n],
                   Request(host[n], IF monitorNewNp(n) THEN 0 ELSE lastValues[n].timestamp,
                           "send"))
       ELSE inflight[n]]
  /\ lastValues' = [n \in Names |->
       IF monitorNewNp(n) THEN [value |-> host[n], timestamp |-> 0]
       ELSE IF monitorChangedNp(n) THEN [lastValues[n] EXCEPT !.value = host[n]]
       ELSE lastValues[n]]
  /\ Quiet
  /\ UNCHANGED <<variant, detected, host, pendingUpdates, isInitialized, updateQueue, stopped, boot,
                 polls, store, clock, edits, sched>>

\* whether the merge of a snapshot entry adopts it
pollAdoptsNp(n, e) ==
  /\ e # NoEntry
  /\ lastValues[n] # NoLast
  /\ e.value # lastValues[n].value
  /\ e.ts > lastValues[n].timestamp
  /\ host[n] # NoVar

\* pollServerForUpdates from its await to its end: response i arrives
pollServerForUpdatesDoneNp(i, failed) ==
  /\ variant = "np"
  /\ i \in 1..Len(polls)
  /\ failed \/ polls[i].st # "sent"
  /\ polls' = RemoveAt(polls, i)
  /\ LET snap == Snapshot(i, failed) IN
     /\ host' = [n \in Names |-> IF pollAdoptsNp(n, snap[n]) THEN snap[n].value ELSE host[n]]
     /\ lastValues' = [n \in Names |->
          IF pollAdoptsNp(n, snap[n]) THEN [value |-> snap[n].value, timestamp |-> snap[n].ts]
          ELSE lastValues[n]]
  /\ ev' = PollEvent(i, failed)
  /\ bootLog' = AgeLog
  /\ UNCHANGED <<variant, detected, cloudVars, pendingUpdates, isInitialized, updateQueue, stopped,
                 boot, inflight, store, clock, edits, sched>>

\* window.cloudVarsStop()
cloudVarsStopNp ==
  /\ variant = "np"
  /\ stopped' = TRUE
  /\ Quiet
  /\ UNCHANGED <<variant, detected, host, cloudVars, lastValues, pendingUpdates, isInitialized,
                 updateQueue, boot, inflight, polls, store, clock, edits, sched>>

\* ------------------------------------------------------------- system

\* the responses that can arrive
sendToServerResponse(n, i) ==
  /\ i <= Len(inflight[n])
  /\ \E o \in ServerWrite(n, inflight[n][i]) : sendToServerDone(n, i, o)

initializeFromServerResponse ==
  /\ boot.pc = "write"
  /\ inflight[boot.cur] # <<>>
  /\ \E o \in ServerWrite(boot.cur, inflight[boot.cur][1]) : initializeFromServerStep(o)

sendToServerResponseTs(n, i) ==
  /\ i <= Len(inflight[n])
  /\ \E o \in ServerWrite(n, inflight[n][i]) :
       \E now \in IF sendAdoptsTs(n, o) THEN DateNow ELSE {1} :
         sendToServerDoneTs(n, i, o, now)

sendToServerResponseNp(n, i) ==
  /\ i <= Len(inflight[n])
  /\ \E o \in ServerWrite(n, inflight[n][i]) : sendToServerDoneNp(n, i, o)

initializeFromServerResponseNp(i) ==
  /\ boot.pc = "write"
  /\ i <= Len(inflight[boot.cur])
  /\ \E o \in ServerWrite(boot.cur, inflight[boot.cur][i]) : initializeFromServerStepNp(i, o)

Next ==
  \/ \E n \in Busy, v \in Values \cup {NoVar} : HostSet(n, v)
  \/ \E n \in Busy, v \in StrValues : RemoteWrite(n, v)
  \/ \E n \in Names : debounceTimer(n)
  \/ \E n \in Names, i \in 1..MaxInFlight : sendToServerResponse(n, i)
  \/ initializeFromServerResponse
  \/ monitor
  \/ pollServerForUpdates
  \/ \E i \in 1..MaxPolls, ok \in BOOLEAN : ServerSnapshot(i, ok)
  \/ \E i \in 1..MaxPolls, failed \in BOOLEAN : pollServerForUpdatesDone(i, failed)
  \/ cloudVarsStop
  \/ \E ok \in BOOLEAN : ServerBootSnapshot(ok)
  \/ \E failed \in BOOLEAN : initializeFromServerTs(failed)
  \/ \E n \in Names, i \in 1..MaxInFlight : sendToServerResponseTs(n, i)
  \/ monitorTs
  \/ \E i \in 1..MaxPolls, failed \in BOOLEAN : pollServerForUpdatesDoneTs(i, failed)
  \/ \E n \in Names, i \in 1..MaxInFlight : sendToServerResponseNp(n, i)
  \/ \E i \in 1..MaxInFlight : initializeFromServerResponseNp(i)
  \/ monitorNp
  \/ \E i \in 1..MaxPolls, failed \in BOOLEAN : pollServerForUpdatesDoneNp(i, failed)
  \/ cloudVarsStopNp

Spec == Init /\ [][Next]_vars

\* ------------------------------------------------------------- properties

InFlight(n) == inflight[n] # <<>>
KeepsPendingSet == variant \in {"main", "ts"}

\* C1: in every reachable state, for every variable name at most one outbound
\* write request is in flight.
AtMostOneInFlight == \A n \in Names : Len(inflight[n]) <= 1

\* C2 as stated: in every reachable state of a client that keeps pendingUpdates,
\* a name has a write in flight if and only if it is in pendingUpdates.
PendingIffInFlight ==
  KeepsPendingSet => \A n \in Names : InFlight(n) <=> n \in pendingUpdates

\* C2 amended: in a client that keeps pendingUpdates, a name in pendingUpdates
\* has a write in flight, and until cloudVarsStop is called a name with a write
\* in flight is in pendingUpdates (cloudVarsStop empties the set under the
\* writes still in flight).
PendingDiscipline ==
  KeepsPendingSet =>
    /\ \A n \in pendingUpdates : InFlight(n)
    /\ ~stopped => \A n \in Names : InFlight(n) => n \in pendingUpdates

\* C2's case: cloudVarsStop has emptied pendingUpdates under a write in flight
PendingClearedByStop ==
  /\ variant = "main" /\ stopped
  /\ \E n \in Names : InFlight(n) /\ n \notin pendingUpdates

\* C3: once the response to a write for a name has been processed, by
\* sendToServer or by initializeFromServer, whatever the outcome (success,
\* rejection, transport failure), the name is not in pendingUpdates.
ReleasedInAllOutcomes ==
  ev.op \in {"send", "init"} => ev.name \notin pendingUpdates

\* C3's case: sendToServer has processed a transport failure
ReleasedAfterFailure ==
  /\ variant = "main" /\ ev.op = "send" /\ ev.kind = "failure"
  /\ ev.name \notin pendingUpdates

\* C4: the debounceUpdate calls for a name made before its timer fires leave
\* one buffered value, the last call's, and no request; the timer's firing
\* issues exactly one write request, carrying the last call's value.
DebounceCollapsing ==
  \A n \in Names :
    sched[n].calls >= 1 =>
      IF updateQueue[n] # Undefined
      THEN updateQueue[n] = sched[n].last /\ inflight[n] = <<>>
      ELSE inflight[n] = <<Request(String(sched[n].last), NoTs, "send")>>

\* C4's case: two or more calls in one window, the timer has fired
TwoCallsOneWrite ==
  \E n \in Names :
    /\ sched[n].calls = 2 /\ updateQueue[n] = Undefined
    /\ inflight[n] = <<Request(String(sched[n].last), NoTs, "send")>>

\* what the detection tick does to a name's buffer entry
TickSchedules(n) ==
  /\ variant = "main" => ENABLED (monitor /\ updateQueue'[n] = host[n])
  /\ variant = "ts" => ENABLED (monitorTs /\ updateQueue'[n] = host[n])

\* the deadline of a pending name: no request, the entry removed
TimerDrops(n) ==
  ENABLED (debounceTimer(n) /\ inflight' = inflight /\ updateQueue'[n] = Undefined)

RemoteWinsOnConflict ==
  ( /\ ev.op = "send" /\ ev.kind = "newer" /\ Truthy(ev.value)
    /\ ev.before # NoLast /\ ev.before.timestamp # NoTs /\ ev.ts > ev.before.timestamp
    /\ host[ev.name] # NoVar )
  => /\ lastValues[ev.name] = [value |-> ev.value, timestamp |-> ev.ts]
     /\ host[ev.name] = ev.value

\* initializeFromServer has just ended
BootstrapCompleted == isInitialized /\ bootLog.live

\* a name the bootstrap has to seed: absent from the snapshot it fetched, or,
\* when it fetches none, from the store at the session's start
AbsentRemotely(n) ==
  /\ bootLog.snap[n] = NoEntry
  /\ bootLog.fetch = "none" => bootLog.remote[n] = NoEntry

\* C7: when initializeFromServer ends (its fetch, if it makes one, answered),
\* every local variable absent from the snapshot has had exactly one write,
\* carrying the variable's value, and if that write succeeded lastValues holds
\* the value the store confirmed.
BootstrapSeeding ==
  (BootstrapCompleted /\ bootLog.fetch # "failed") =>
    \A n \in bootLog.local :
      (AbsentRemotely(n) /\ host[n] # NoVar) =>
        /\ Len(bootLog.sent[n]) = 1
        /\ bootLog.sent[n][1].value = String(bootLog.sent[n][1].local)
        /\ bootLog.sent[n][1].result = "success" =>
             lastValues[n].value = bootLog.sent[n][1].reply

\* C8: when initializeFromServer ends (its fetch, if it makes one, answered),
\* no write of it has replaced the value the store held at the session's start
\* for a local variable by another, and (no other client and no user having
\* touched the variable since) lastValues and the host hold the store's value
\* and timestamp.
BootstrapRemoteWins ==
  (BootstrapCompleted /\ bootLog.fetch # "failed") =>
    \A n \in bootLog.local :
      (bootLog.remote[n] # NoEntry /\ host[n] # NoVar) =>
        /\ \A k \in 1..Len(bootLog.sent[n]) :
             bootLog.sent[n][k].result = "success" =>
               bootLog.sent[n][k].reply = bootLog.remote[n].value
        /\ (store[n] = bootLog.remote[n] /\ edits = 0) =>
             /\ lastValues[n].value = store[n].value
             /\ host[n] = store[n].value
             /\ UsesTs => lastValues[n].timestamp = store[n].ts

\* C9: when initializeFromServer ends after its fetch has failed (transport
\* error or success = false), it has issued one write for every local variable.
BootstrapFetchFailureSeeds ==
  (BootstrapCompleted /\ bootLog.fetch = "failed") =>
    \A n \in bootLog.local : Len(bootLog.sent[n]) = 1

\* a poll tick that issues a fetch, a detection tick that schedules or sends
PollTickFetches == ENABLED (pollServerForUpdates /\ polls' # polls)
DetectionTickPropagates ==
  \/ ENABLED (monitor /\ (updateQueue' # updateQueue \/ inflight' # inflight))
  \/ ENABLED (monitorTs /\ (updateQueue' # updateQueue \/ inflight' # inflight))
  \/ ENABLED (monitorNp /\ (updateQueue' # updateQueue \/ inflight' # inflight))

\* C10: while isInitialized is false a poll tick issues no fetch and a
\* detection tick schedules no entry and sends nothing; no poll is in flight,
\* the buffer is empty and every write in flight is initializeFromServer's.
InitializedGating ==
  ~isInitialized =>
    /\ ~PollTickFetches
    /\ ~DetectionTickPropagates
    /\ polls = <<>>
    /\ updateQueue = NoQueue
    /\ \A n \in Names : \A k \in 1..Len(inflight[n]) : inflight[n][k].kind = "boot"

\* C10's case: before initialization a detection tick has met (and recorded) a
\* variable created after the start, and the host's value has changed since
GatedTickHasRun ==
  /\ ~isInitialized /\ ~stopped
  /\ \E n \in Names \ bootLog.local :
       /\ bootLog.fetch = "none"
       /\ host[n] # NoVar /\ lastValues[n] # NoLast /\ host[n] # lastValues[n].value

\* a step in which pollServerForUpdates merges a response
PollMerged == Len(polls') < Len(polls)
Untouched(n) == lastValues'[n] = lastValues[n] /\ host'[n] = host[n]

\* C11: the merge of a poll's snapshot changes neither lastValues nor the host
\* variable of a name that is in pendingUpdates at that moment.
PollSkipsPending ==
  [][PollMerged => \A n \in pendingUpdates : Untouched(n)]_vars

\* the step leaves the name's values as they were (a number becoming the
\* string that writes it counts as no change)
SameValues(n) ==
  /\ String(host'[n]) = String(host[n])
  /\ String(lastValues'[n].value) = String(lastValues[n].value)

\* C12: in javascript_client.js, the merge of a poll's snapshot overwrites
\* neither lastValues nor the host variable of a name whose changes are being
\* coalesced (an entry is buffered) or whose write is in flight.
PollSparesCoalescing ==
  [][(variant = "main" /\ PollMerged) =>
       \A n \in Names :
         (updateQueue[n] # Undefined \/ n \in pendingUpdates) => SameValues(n)]_vars

\* whether the client's merge calls setVariableValue for a snapshot entry
PollAdoptsNow(n, e) ==
  CASE variant = "main" -> pollAdopts(n, e)
    [] variant = "ts" -> pollAdoptsTs(n, e)
    [] OTHER -> pollAdoptsNp(n, e)

\* the step has merged snapshot S
PollApplied(S) ==
  \A n \in Names :
    PollAdoptsNow(n, S[n]) => host'[n] = S[n].value /\ lastValues'[n].value = S[n].value

\* C13: once a poll's snapshot has been merged, merging the same snapshot
\* again (nothing having changed in between) calls setVariableValue for no name.
PollReapplyIsNoOp ==
  [][\A i \in 1..Len(polls) :
       (polls' = RemoveAt(polls, i) /\ polls[i].st = "ok") =>
         \A S \in {polls[i].variables} :
           PollApplied(S) => \A n \in Names : ~(PollAdoptsNow(n, S[n]))']_vars

\* a step that starts an outbound write request
WriteStarted == \E n \in Names : Len(inflight'[n]) > Len(inflight[n])

\* C14: once cloudVarsStop has been called no outbound write request is started.
NoWriteAfterShutdown == [][stopped => ~WriteStarted]_vars

\* a call of window.cloudVarsStop()
StopCalled == cloudVarsStop \/ cloudVarsStopNp

\* the state of the program, the history variables left out
progVars == <<variant, host, cloudVars, lastValues, pendingUpdates, isInitialized,
              updateQueue, stopped, boot, inflight, polls, store, clock, edits>>

TicksCancelled ==
  /\ ~ENABLED monitor /\ ~ENABLED monitorTs /\ ~ENABLED monitorNp
  /\ ~ENABLED pollServerForUpdates
NoTimerOutstanding == \A n \in Names : ~ENABLED debounceTimer(n)
SecondStopIsNoOp == ~ENABLED (StopCalled /\ progVars' # progVars)

\* C15: in the state a call of cloudVarsStop leaves, neither periodic task can
\* run, no debounce timer can fire, updateQueue and pendingUpdates are empty, and
\* a second call changes nothing.
ShutdownEffect ==
  [][StopCalled =>
       (/\ TicksCancelled /\ NoTimerOutstanding
        /\ updateQueue = NoQueue /\ pendingUpdates = {}
        /\ SecondStopIsNoOp)']_vars

\* cloudVarsStop has been called while a debounced write was in flight
StoppedDuringWrite ==
  /\ stopped /\ updateQueue = NoQueue /\ pendingUpdates = {}
  /\ \E n \in Names : \E i \in 1..Len(inflight[n]) : inflight[n][i].kind = "send"

\* a debounced write for a name has just failed at the transport level, the
\* host's value being still the one the write carried
WriteJustFailed(n) ==
  /\ KeepsPendingSet /\ ~stopped /\ isInitialized
  /\ ev.op = "send" /\ ev.req.kind = "send" /\ ev.kind = "failure" /\ ev.name = n
  /\ host[n] # NoVar /\ String(host[n]) = ev.req.value

\* C16: after a write has failed at the transport level lastValues holds the
\* value the write carried, and the detection tick that follows schedules a new
\* send of it.
RetryAfterFailure ==
  \A n \in Names :
    WriteJustFailed(n) =>
      /\ lastValues[n] # NoLast /\ String(lastValues[n].value) = ev.req.value
      /\ TickSchedules(n)

\* a step in which the debounce timer of a name issues its write
TimerSends(n) ==
  /\ Len(inflight'[n]) > Len(inflight[n])
  /\ inflight'[n][Len(inflight'[n])].kind = "send"

\* C17: for each name, every debounced write carries a value that monitor has
\* detected after the detection the name's previous write carried: the values
\* sent are a subsequence of the values detected, in the same order.
WritesInDetectionOrder ==
  [][KeepsPendingSet =>
       \A n \in Names :
         TimerSends(n) => Matching(detected[n], inflight'[n][Len(inflight'[n])].value) # 0]_vars

\* a write in flight carries the later of two values detected for its name
WriteSkippedDetection ==
  \E n \in Names :
    /\ detected[n].skipped > 0
    /\ \E i \in 1..Len(inflight[n]) : inflight[n][i].kind = "send"

\* ------------------------------------------------------------- a working network
\* javascript_client.js while every request gets its response and every write
\* is taken by the store; the intervals run (cloudVarsStop is not called); the
\* host's edits and the other clients' writes are finitely many

WriteSucceeds(n, req) == {o \in ServerWrite(n, req) : o.kind = "success"}

sendToServerSucceeds(n, i) ==
  /\ i <= Len(inflight[n])
  /\ \E o \in WriteSucceeds(n, inflight[n][i]) : sendToServerDone(n, i, o)

initializeFromServerSucceeds ==
  /\ boot.pc = "write"
  /\ inflight[boot.cur] # <<>>
  /\ \E o \in WriteSucceeds(boot.cur, inflight[boot.cur][1]) : initializeFromServerStep(o)

LiveInit == Init /\ variant = "main"

LiveNext ==
  \/ \E n \in Busy, v \in Values \cup {NoVar} : HostSet(n, v)
  \/ \E n \in Busy, v \in StrValues : RemoteWrite(n, v)
  \/ \E n \in Names : debounceTimer(n)
  \/ \E n \in Names, i \in 1..MaxInFlight : sendToServerSucceeds(n, i)
  \/ initializeFromServerSucceeds
  \/ monitor
  \/ pollServerForUpdates
  \/ \E i \in 1..MaxPolls : ServerSnapshot(i, TRUE)
  \/ \E i \in 1..MaxPolls : pollServerForUpdatesDone(i, FALSE)

\* setInterval runs both ticks again and again, a timer set fires, a request
\* sent is answered
Fairness ==
  /\ WF_vars(monitor)
  /\ WF_vars(pollServerForUpdates)
  /\ \A n \in Names : WF_vars(debounceTimer(n))
  /\ \A n \in Names, i \in 1..MaxInFlight : WF_vars(sendToServerSucceeds(n, i))
  /\ WF_vars(initializeFromServerSucceeds)
  /\ \A i \in 1..MaxPolls : WF_vars(ServerSnapshot(i, TRUE))
  /\ \A i \in 1..MaxPolls : WF_vars(pollServerForUpdatesDone(i, FALSE))

LiveSpec == LiveInit /\ [][LiveNext]_vars /\ Fairness

\* the host's value, lastValues' and the store's are one value (as strings)
Consistent(n) ==
  /\ lastValues[n] # NoLast /\ String(lastValues[n].value) = String(host[n])
  /\ store[n] # NoEntry /\ store[n].value = String(host[n])

\* C18: with a working network and fair ticks, once the edits and the other
\* clients' writes have stopped a state is reached and kept in which, for every
\* cloud variable of the host, the host's value, lastValues' and the store's
\* are equal.
EventualConsistency == <>[](\A n \in Names : host[n] # NoVar => Consistent(n))

\* a tick of the detection task in which the post-state satisfies, for name n,
\* "lastValues holds the host's value" (record) and "updateQueue holds the
\* host's value" (route)
TickRecordsAndRoutes(n) ==
  /\ variant = "main" =>
       ENABLED (monitor /\ lastValues'[n].value = host[n] /\ updateQueue'[n] = host[n])
  /\ variant = "ts" =>
       ENABLED (monitorTs /\ lastValues'[n].value = host[n] /\ updateQueue'[n] = host[n])

\* ... "lastValues has the new name's value" and "updateQueue holds it if and
\* only if the session is initialized"
TickRecordsNew(n) ==
  /\ variant = "main" =>
       ENABLED (monitor /\ lastValues'[n].value = host[n]
                        /\ (updateQueue'[n] = host[n]) = isInitialized)
  /\ variant = "ts" =>
       ENABLED (monitorTs /\ lastValues'[n] = [value |-> host[n], timestamp |-> 0]
                          /\ (updateQueue'[n] = host[n]) = isInitialized)

\* C19: while the intervals run, a detection tick that meets a name in
\* lastValues, not pending, whose host value differs from lastValues' on an
\* initialized session leaves lastValues[name].value equal to the host's value
\* and an updateQueue entry with that value; a name not in lastValues is
\* recorded (with timestamp 0 where timestamps are kept) and enters updateQueue
\* only if the session is initialized.
OptimisticDetection ==
  (KeepsPendingSet /\ ~stopped) =>
    \A n \in Names :
      (host[n] # NoVar /\ n \notin pendingUpdates) =>
        /\ (lastValues[n] # NoLast /\ isInitialized /\ host[n] # lastValues[n].value)
             => TickRecordsAndRoutes(n)
        /\ lastValues[n] = NoLast => TickRecordsNew(n)

\* the merge takes the entry: the host and lastValues hold the value it
\* carries (compared as strings)
Adopted(n, e) ==
  /\ String(host'[n]) = String(e.value)
  /\ String(lastValues'[n].value) = String(e.value)

\* the merge of the snapshot that poll i has received
PollMerge(i) ==
  pollServerForUpdatesDoneTs(i, FALSE) \/ pollServerForUpdatesDoneNp(i, FALSE)

\* the adoption rule, for the entries of snapshot S
AdoptionRule(S) ==
  \A n \in Names :
    S[n] # NoEntry =>
      /\ (host[n] # NoVar /\ n \notin pendingUpdates) =>
           IF lastValues[n] = NoLast \/ S[n].ts >= lastValues[n].timestamp
           THEN Adopted(n, S[n]) ELSE Untouched(n)
      /\ host[n] = NoVar => Untouched(n)

\* C20: in the clients that keep timestamps, the merge of a poll's snapshot
\* adopts the entry of a non-pending name of the host exactly when the entry's
\* timestamp is greater than or equal to lastValues' or the name is missing from
\* lastValues; an entry whose name the host does not have changes neither
\* lastValues nor the host.
PollAdoptionRule ==
  \A i \in 1..Len(polls) :
    (UsesTs /\ polls[i].st = "ok") =>
      ENABLED (PollMerge(i) /\ AdoptionRule(polls[i].variables))

\* the response a step has just processed is a success of sendToServer
WriteJustSucceeded == ev.op = "send" /\ ev.kind = "success"

\* C21: once the success response of a write for a name has been processed,
\* lastValues[name] holds the value the store declared (newValue) and, where
\* timestamps are kept, its lastModified.
SuccessAdoption ==
  WriteJustSucceeded =>
    /\ lastValues[ev.name].value = ev.value
    /\ UsesTs => lastValues[ev.name].timestamp = ev.ts

\* a write has succeeded although, while it was in flight, the host's value
\* and lastValues' had come to differ from the value the store confirms
SucceededOverChanges ==
  /\ WriteJustSucceeded
  /\ host[ev.name] # NoVar /\ String(host[ev.name]) # String(ev.value)
  /\ ev.before # NoLast /\ String(ev.before.value) # String(ev.value)

\* the ticks of both intervals can be taken
TicksRun ==
  /\ ENABLED pollServerForUpdates
  /\ ENABLED monitor \/ ENABLED monitorTs

\* C22: a poll whose fetch fails, or whose response has success = false,
\* leaves lastValues, the host's variables, pendingUpdates and updateQueue as
\* they were, and (in the clients that keep pendingUpdates, while the intervals
\* run) the next ticks of monitor and pollServerForUpdates can be taken.
PollFailureContained ==
  [][(ev'.op = "poll" /\ ev'.kind = "failure") =>
       /\ UNCHANGED <<lastValues, host, pendingUpdates, updateQueue>>
       /\ (KeepsPendingSet /\ ~stopped) => TicksRun']_vars

\* a poll has just failed whose snapshot, had it been merged, would have
\* changed a variable of the host
PollJustFailed ==
  /\ ev.op = "poll" /\ ev.kind = "failure" /\ isInitialized
  /\ \E n \in Names :
       /\ host[n] # NoVar /\ n \notin pendingUpdates
       /\ store[n] # NoEntry /\ String(store[n].value) # String(host[n])

\* ------------------------------------------------------------- answered bootstrap
\* every request initializeFromServer awaits gets a response, whatever it is

BootFairness ==
  /\ WF_vars(initializeFromServerResponse)
  /\ WF_vars(\E ok \in BOOLEAN : ServerBootSnapshot(ok))
  /\ WF_vars(\E failed \in BOOLEAN : initializeFromServerTs(failed))
  /\ \A n \in Names, i \in 1..MaxInFlight : WF_vars(sendToServerResponseTs(n, i))
  /\ \A i \in 1..MaxInFlight : WF_vars(initializeFromServerResponseNp(i))

BootSpec == Init /\ [][Next]_vars /\ BootFairness

\* C23: when every request of initializeFromServer is answered, isInitialized
\* becomes true; and once true it stays true, cloudVarsStop included.
InitializationCompletes ==
  /\ <>isInitialized
  /\ [][isInitialized => isInitialized']_vars

\* initialized, after cloudVarsStop
InitializedAndStopped == isInitialized /\ stopped /\ boot.pc = "done"

\* a tick of the detection task taken now calls debounceUpdate for name n
TickCallsDebounce(n) ==
  \/ ENABLED (monitor /\ sched'[n].calls > 0)
  \/ ENABLED (monitorTs /\ sched'[n].calls > 0)

\* C24: once a write for a name has succeeded and the host holds the value the
\* store confirmed, the detection tick schedules no further write for the name.
QuiescentAfterSuccess ==
  \A n \in Names :
    ( /\ KeepsPendingSet /\ ~stopped /\ isInitialized
      /\ WriteJustSucceeded /\ ev.name = n /\ ~InFlight(n)
      /\ host[n] # NoVar /\ String(host[n]) = String(ev.value)
      /\ store[n] # NoEntry /\ store[n].value = ev.value )
    => ~TickCallsDebounce(n)

\* the merge of the snapshot poll i has received replaces the host's value of
\* name n with a different one, or lastValues' value
MergeReplaces(i, n) ==
  \/ ENABLED (pollServerForUpdatesDone(i, FALSE) /\ ~SameValues(n))
  \/ ENABLED (pollServerForUpdatesDoneTs(i, FALSE) /\ ~SameValues(n))

\* C25: when a write for a name has just succeeded and released
\* pendingUpdates, the host and lastValues holding the confirmed value, the
\* merge of a snapshot read from the store before that write replaces neither.
NoStaleClobber ==
  \A n \in Names : \A i \in 1..Len(polls) :
    ( /\ KeepsPendingSet /\ polls[i].st = "ok"
      /\ WriteJustSucceeded /\ ev.name = n /\ n \notin pendingUpdates
      /\ host[n] # NoVar /\ String(host[n]) = String(ev.value)
      /\ lastValues[n].value = ev.value
      /\ polls[i].variables[n] # NoEntry /\ polls[i].variables[n].value # ev.value )
    => ~MergeReplaces(i, n)

\* C26: once cloudVarsStop has been called, no step of the client changes
\* lastValues or a variable of the host (the project's own edits apart).
NoEffectAfterShutdown ==
  [][(stopped /\ edits' = edits) => (lastValues' = lastValues /\ host' = host)]_vars

\* C27: in the clients whose monitor skips the names in pendingUpdates, a name
\* with an entry in updateQueue is not in pendingUpdates, so that no timer fires
\* for a pending name and the dropping branch of the timer's callback is never
\* taken.
NoDropBranch ==
  KeepsPendingSet =>
    \A n \in Names :
      /\ updateQueue[n] # Undefined => n \notin pendingUpdates
      /\ ~TimerDrops(n)

\* a detection has been buffered twice in its window for a name, and the timer
\* that fires now sends it
TimerAboutToSend ==
  /\ KeepsPendingSet
  /\ \E n \in Names :
       /\ updateQueue[n] # Undefined /\ sched[n].calls = 2
       /\ ENABLED (debounceTimer(n) /\ n \in pendingUpdates' /\ Len(inflight'[n]) = 1)

====
